---- MODULE Spec2Model ----
(***************************************************************************)
(* Finite-field arithmetic (src/src/ff/mod.rs) and the elliptic-curve      *)
(* group law built on it (src/src/ec/mod.rs).                              *)
(*                                                                         *)
(* The machine word is scaled: Rust's u32 is modelled as an unsigned       *)
(* integer of WordBits bits, u64 as one of 2*WordBits bits and i64 as a    *)
(* signed integer of 2*WordBits bits, so that the code's widening to the   *)
(* double width (and any wrap or failed narrowing) is visible at moduli    *)
(* TLC can enumerate.                                                      *)
(***************************************************************************)
EXTENDS Integers, FiniteSets, Sequences, TLC

VARIABLES
    P,      \* the const generic modulus of FieldElement<P>
    x,      \* first field element held by the caller: {} or {val}
    y,      \* second field element held by the caller: {} or {val}
    last,   \* the last field operation: its name, operands and outcome
    cA,     \* the const generic A of CurvePoint<A, B, P>
    cB,     \* the const generic B of CurvePoint<A, B, P>
    cP,     \* the const generic P of CurvePoint<A, B, P>
    p,      \* first curve point held by the caller
    q,      \* second curve point held by the caller
    clast   \* the last curve operation: its name, operands and outcome

vars == <<P, x, y, last, cA, cB, cP, p, q, clast>>
fvars == <<P, x, y, last>>
cvars == <<cA, cB, cP, p, q, clast>>

---------------------------------------------------------------------------
(* Bounds and machine widths *)

WordBits == 4
CurveMaxP == 5

RECURSIVE Pow2(_)
Pow2(k) == IF k = 0 THEN 1 ELSE 2 * Pow2(k - 1)

U32Range == Pow2(WordBits)
U64Range == Pow2(2 * WordBits)
I64Half == Pow2(2 * WordBits - 1)

U32 == 0 .. (U32Range - 1)

\* u64 arithmetic wraps at the double width
WrapU64(v) == v % U64Range

\* i64 arithmetic wraps at the signed double width
WrapI64(v) == ((v + I64Half) % U64Range) - I64Half

---------------------------------------------------------------------------
(* Outcomes: a value, or the failure that ended the call.  inv counts the   *)
(* calls of multiplicative_inverse the operation made.                      *)

Ok(v) == [kind |-> "elem", val |-> v, inv |-> 0]
Fail(k) == [kind |-> k, val |-> 0, inv |-> 0]
IsOk(r) == r.kind = "elem"

\* u32::try_from(u64).expect(msg)
U32TryFrom(v, msg) == IF v < U32Range THEN Ok(v) ELSE Fail(msg)

---------------------------------------------------------------------------
(* The modular primitives *)

\* fault variant of modulus_add: the sum is formed at the element width
modulus_add_narrow(a, b, n) == Ok(((a + b) % U32Range) % n)

modulus_add(a, b, n) ==
    U32TryFrom(WrapU64(a + b) % n, "overflow in modulus addition")

additive_inverse(a, n) == n - (a % n)

modulus_sub(a, b, n) ==
    IF a > b
    THEN Ok((a - b) % n)
    ELSE modulus_add(a, additive_inverse(b, n), n)

modulus_mul(a, b, n) ==
    U32TryFrom(WrapU64(a * b) % n, "overflow in modulus multiplication")

\* u32::BITS - b.leading_zeros()
RECURSIVE BitLen(_)
BitLen(b) == IF b = 0 THEN 0 ELSE 1 + BitLen(b \div 2)

\* (b >> i) & 1
Bit(b, i) == (b \div Pow2(i)) % 2

\* the body of `for i in 0..bits`
RECURSIVE ExpLoop(_, _, _, _, _, _)
ExpLoop(i, bits, cur, acm, b, n) ==
    IF i >= bits
    THEN Ok(acm)
    ELSE LET c == modulus_add(cur, cur, n)
         IN  IF ~IsOk(c)
             THEN c
             ELSE LET s == IF Bit(b, i) = 1
                           THEN modulus_add(acm, c.val, n)
                           ELSE Ok(acm)
                  IN  IF ~IsOk(s)
                      THEN s
                      ELSE ExpLoop(i + 1, bits, c.val, s.val, b, n)

modulus_exp(a, b, n) ==
    IF n = 1
    THEN Ok(0)
    ELSE IF b = 0
         THEN Ok(1)
         ELSE ExpLoop(0, BitLen(b), a, 0, b, n)

\* the body of `while rem != 0`, returning the final val or the Err
RECURSIVE InvLoop(_, _, _, _, _)
InvLoop(cur_n, cur_a, val, pre, rem) ==
    IF rem = 0
    THEN Ok(val)
    ELSE LET val_cof == WrapI64(-(cur_n \div cur_a))
             val2 == WrapI64(pre + WrapI64(val * val_cof))
             rem2 == cur_a % rem
         IN  IF rem2 = 0 /\ rem # 1
             THEN Fail("NoMultiplicativeInverse")
             ELSE InvLoop(cur_a, rem, val2, val, rem2)

\* fault variant of the loop: the quotient enters the coefficient unnegated
RECURSIVE InvLoopPlus(_, _, _, _, _)
InvLoopPlus(cur_n, cur_a, val, pre, rem) ==
    IF rem = 0
    THEN Ok(val)
    ELSE LET val_cof == WrapI64(cur_n \div cur_a)
             val2 == WrapI64(pre + WrapI64(val * val_cof))
             rem2 == cur_a % rem
         IN  IF rem2 = 0 /\ rem # 1
             THEN Fail("NoMultiplicativeInverse")
             ELSE InvLoopPlus(cur_a, rem, val2, val, rem2)

\* the conversions after the loop
InvFinish(r, n) ==
    IF ~IsOk(r)
    THEN r
    ELSE LET v == r.val % n
         IN  IF v >= U32Range
             THEN Fail("multiplicative inverse modulos returned negative value")
             ELSE IF v = 0
                  THEN Fail("multiplicative_inverse returned 0")
                  ELSE Ok(v)

\* fault variant of multiplicative_inverse, over the unnegated loop
multiplicative_inverse_plus(a, n) ==
    IF a % n = 0
    THEN Fail("remainder with a divisor of zero")
    ELSE InvFinish(InvLoopPlus(n, a % n, 1, 0, n % (a % n)), n)

multiplicative_inverse(a, n) ==
    IF a % n = 0
    THEN Fail("remainder with a divisor of zero")
    ELSE InvFinish(InvLoop(n, a % n, 1, 0, n % (a % n)), n)

modulus_div(a, b, n) ==
    LET i == multiplicative_inverse(b, n)
    IN  IF IsOk(i) THEN modulus_mul(a, i.val, n) ELSE i

---------------------------------------------------------------------------
(* FieldElement<P> and its operators, on stored values *)

\* fault variant of new: the input is stored without reduction
FieldNew_unreduced(v, m) ==
    IF m = 0 THEN Fail("ZeroModulus") ELSE Ok(v)

FieldNew(v, m) ==
    IF m = 0 THEN Fail("ZeroModulus") ELSE Ok(v % m)

FieldPow(a, b, m) == modulus_exp(a, b, m)
FieldAdd(a, b, m) == modulus_add(a, b, m)
FieldSub(a, b, m) == modulus_sub(a, b, m)
FieldMul(a, b, m) == modulus_mul(a, b, m)

\* fault variant of div: a zero divisor is left to the inverse to reject
FieldDiv_uncheckedZero(a, b, m) ==
    IF b = 0
    THEN [Fail("NoMultiplicativeInverse") EXCEPT !.inv = 1]
    ELSE [modulus_div(a, b, m) EXCEPT !.inv = 1]

FieldDiv(a, b, m) ==
    IF b = 0
    THEN Fail("DivisionByZero")
    ELSE [modulus_div(a, b, m) EXCEPT !.inv = 1]

FieldNeg(a, m) == modulus_sub(0, a, m)

---------------------------------------------------------------------------
(* CurvePoint<A, B, P>: Zero, or Point { x, y } of stored field values     *)

Zero == [tag |-> "Zero", x |-> 0, y |-> 0]
Point(px, py) == [tag |-> "Point", x |-> px, y |-> py]

\* Outcome of a curve operation: a point, or the field failure that ended
\* it.  divs counts the field divisions the operation made.
COk(pt, n) == [kind |-> "point", pt |-> pt, divs |-> n]
CFail(k) == [kind |-> k, pt |-> Zero, divs |-> 0]
CIsOk(r) == r.kind = "point"

\* the first failure among field outcomes listed in evaluation order
FirstFail(rs) ==
    rs[CHOOSE i \in 1 .. Len(rs) :
           /\ ~IsOk(rs[i])
           /\ \A j \in 1 .. (i - 1) : IsOk(rs[j])]

\* the secant branch: s, x and y of CurvePoint::add
Secant(x1, y1, x2, y2, m) ==
    LET dy == FieldSub(y1, y2, m)
        dx == FieldSub(x1, x2, m)
        s == IF IsOk(dy) /\ IsOk(dx) THEN FieldDiv(dy.val, dx.val, m) ELSE Fail("skipped")
        ss == FieldMul(s.val, s.val, m)
        t == FieldSub(ss.val, x1, m)
        x3 == FieldSub(t.val, x2, m)
        rx == FieldSub(x2, x1, m)
        w == FieldMul(s.val, rx.val, m)
        y3 == FieldAdd(y1, w.val, m)
        rs == <<dy, dx, s, ss, t, x3, rx, w, y3>>
    IN  IF \A i \in 1 .. Len(rs) : IsOk(rs[i])
        THEN COk(Point(x3.val, y3.val), 1)
        ELSE LET f == FirstFail(rs)
             IN  [CFail(f.kind) EXCEPT !.divs = IF IsOk(dy) /\ IsOk(dx) THEN 1 ELSE 0]

\* fault variant of add: only opposite points collapse, a point added to
\* itself goes down the secant branch
CurveAdd_samePointSecant(self, rhs, m) ==
    IF self.tag = "Zero"
    THEN COk(rhs, 0)
    ELSE IF rhs.tag = "Zero"
         THEN COk(self, 0)
         ELSE IF self.x = rhs.x /\ self.y # rhs.y
              THEN COk(Zero, 0)
              ELSE Secant(self.x, self.y, rhs.x, rhs.y, m)

CurveAdd(self, rhs, m) ==
    IF self.tag = "Zero"
    THEN COk(rhs, 0)
    ELSE IF rhs.tag = "Zero"
         THEN COk(self, 0)
         ELSE IF self.x = rhs.x
              THEN COk(Zero, 0)
              ELSE Secant(self.x, self.y, rhs.x, rhs.y, m)

CurveSub(self, rhs, m) ==
    IF rhs.tag = "Zero"
    THEN COk(self, 0)
    ELSE LET ny == FieldNeg(rhs.y, m)
         IN  IF IsOk(ny)
             THEN CurveAdd(self, Point(rhs.x, ny.val), m)
             ELSE CFail(ny.kind)

CRecord(op, lhs, rhs, out) == [op |-> op, lhs |-> lhs, rhs |-> rhs, out |-> out]

---------------------------------------------------------------------------
(* The field machine: a caller holding two elements of FieldElement<P>     *)

Regs == {"x", "y"}
Val(r) == CHOOSE v \in r : TRUE

\* the caller keeps the result in register d; a failed call leaves both
Store(d, out) ==
    /\ x' = IF d = "x" /\ IsOk(out) THEN {out.val} ELSE x
    /\ y' = IF d = "y" /\ IsOk(out) THEN {out.val} ELSE y

Record(op, a, b, out) == [op |-> op, a |-> a, b |-> b, out |-> out]

Init ==
    /\ P \in U32
    /\ x = {}
    /\ y = {}
    /\ last = Record("init", 0, 0, Fail("none"))
    /\ cA = 0 /\ cB = 0 /\ cP = 0
    /\ p = Zero
    /\ q = Zero
    /\ clast = CRecord("init", Zero, Zero, CFail("none"))

New ==
    \E v \in U32, d \in Regs :
        LET out == FieldNew(v, P)
        IN  /\ last' = Record("new", v, 0, out)
            /\ Store(d, out)
            /\ UNCHANGED <<P, cvars>>

Binary(op, out, d) ==
    /\ last' = Record(op, Val(x), Val(y), out)
    /\ Store(d, out)
    /\ UNCHANGED <<P, cvars>>

Add ==
    /\ x # {} /\ y # {}
    /\ \E d \in Regs : Binary("add", FieldAdd(Val(x), Val(y), P), d)

Sub ==
    /\ x # {} /\ y # {}
    /\ \E d \in Regs : Binary("sub", FieldSub(Val(x), Val(y), P), d)

Mul ==
    /\ x # {} /\ y # {}
    /\ \E d \in Regs : Binary("mul", FieldMul(Val(x), Val(y), P), d)

Div ==
    /\ x # {} /\ y # {}
    /\ \E d \in Regs : Binary("div", FieldDiv(Val(x), Val(y), P), d)

Pow ==
    /\ x # {} /\ y # {}
    /\ \E d \in Regs : Binary("pow", FieldPow(Val(x), Val(y), P), d)

Neg ==
    /\ x # {}
    /\ \E d \in Regs :
        LET out == FieldNeg(Val(x), P)
        IN  /\ last' = Record("neg", Val(x), 0, out)
            /\ Store(d, out)
            /\ UNCHANGED <<P, cvars>>

Next == New \/ Add \/ Sub \/ Mul \/ Div \/ Pow \/ Neg

Spec == Init /\ [][Next]_vars

---------------------------------------------------------------------------
(* The curve machine: a caller holding two points of CurvePoint<A, B, P>   *)

\* the values FieldElement::<m>::new can produce
FieldElems(m) == {FieldNew(v, m).val : v \in U32}

InitCurve ==
    /\ cP \in 1 .. CurveMaxP
    /\ cA \in 0 .. (cP - 1)
    /\ cB \in 0 .. (cP - 1)
    /\ p = Zero
    /\ q = Zero
    /\ clast = CRecord("init", Zero, Zero, CFail("none"))
    /\ P = 0
    /\ x = {}
    /\ y = {}
    /\ last = Record("init", 0, 0, Fail("none"))

\* the caller builds the next right-hand operand in q
MkZero ==
    /\ clast' = CRecord("zero", Zero, Zero, COk(Zero, 0))
    /\ q' = Zero
    /\ UNCHANGED <<p, cA, cB, cP, fvars>>

MkPoint ==
    \E ex \in FieldElems(cP), ey \in FieldElems(cP) :
        /\ clast' = CRecord("point", Zero, Zero, COk(Point(ex, ey), 0))
        /\ q' = Point(ex, ey)
        /\ UNCHANGED <<p, cA, cB, cP, fvars>>

\* p = p + q and p = p - q; a failed call leaves p
PointAdd ==
    LET out == CurveAdd(p, q, cP)
    IN  /\ clast' = CRecord("add", p, q, out)
        /\ p' = IF CIsOk(out) THEN out.pt ELSE p
        /\ UNCHANGED <<q, cA, cB, cP, fvars>>

PointSub ==
    LET out == CurveSub(p, q, cP)
    IN  /\ clast' = CRecord("sub", p, q, out)
        /\ p' = IF CIsOk(out) THEN out.pt ELSE p
        /\ UNCHANGED <<q, cA, cB, cP, fvars>>

NextCurve == MkZero \/ MkPoint \/ PointAdd \/ PointSub

SpecCurve == InitCurve /\ [][NextCurve]_vars

---------------------------------------------------------------------------
(* Reference arithmetic the properties are stated against *)

RECURSIVE Gcd(_, _)
Gcd(a, b) == IF b = 0 THEN a ELSE Gcd(b, a % b)

IsPrime(n) == n > 1 /\ \A k \in 2 .. (n - 1) : n % k # 0

\* a^e mod m by e successive multiplications
RECURSIVE ModExp(_, _, _)
ModExp(a, e, m) == IF e = 0 THEN 1 % m ELSE (a * ModExp(a, e - 1, m)) % m

\* y^2 = x^3 + A*x + B (mod m)
OnCurve(pt, A, B, m) ==
    \/ pt.tag = "Zero"
    \/ (pt.y * pt.y) % m = (pt.x * pt.x * pt.x + A * pt.x + B) % m

Affine(pt) == pt.tag = "Point"

---------------------------------------------------------------------------
(* Properties of the field *)

\* C1: new(v) stores exactly v mod P, and every element produced by
\* new / add / sub / mul / div / neg / pow has a stored value in [0, P).
C1_StoredValueReduced ==
    /\ \A v \in x \cup y : P > 0 /\ v \in 0 .. (P - 1)
    /\ IsOk(last.out) => (P > 0 /\ last.out.val \in 0 .. (P - 1))
    /\ (last.op = "new" /\ P > 0) => (IsOk(last.out) /\ last.out.val = last.a % P)

C1_Witness ==
    /\ last.op = "new" /\ P > 1 /\ last.a > P
    /\ IsOk(last.out) /\ last.out.val = last.a - P

\* C2 (as claimed): a nonzero divisor b with gcd(b, P) # 1 makes divide fail
\* with NoMultiplicativeInverse and never return a field element.
C2_NonCoprimeDivisorFails ==
    (last.op = "div" /\ last.b # 0 /\ Gcd(last.b, P) # 1)
        => last.out.kind = "NoMultiplicativeInverse"

\* C3: dividing by an element whose stored value is 0 fails with
\* DivisionByZero before any inverse is computed, whatever the dividend.
C3_DivisionByZero ==
    (last.op = "div" /\ last.b = 0)
        => (last.out.kind = "DivisionByZero" /\ last.out.inv = 0)

C3_Witness ==
    /\ last.op = "div" /\ last.b = 0 /\ last.a = 0 /\ P > 1
    /\ last.out.kind = "DivisionByZero"

\* C4: for P > 1 and a divisor b in [1, P) coprime to P, the extended-Euclid
\* inverse is a value inv in [1, P) with (b * inv) mod P = 1, the quotient
\* a / b is a * inv, and b / b is the element 1.
C4_InverseCorrect ==
    (last.op = "div" /\ P > 1 /\ last.b \in 1 .. (P - 1) /\ Gcd(last.b, P) = 1)
        => LET i == multiplicative_inverse(last.b, P)
           IN  /\ IsOk(i)
               /\ i.val \in 1 .. (P - 1)
               /\ (last.b * i.val) % P = 1
               /\ IsOk(last.out)
               /\ last.out.val = (last.a * i.val) % P
               /\ (last.out.val * last.b) % P = last.a
               /\ (last.a = last.b => last.out.val = 1)

C4_Witness ==
    /\ last.op = "div" /\ P > 4 /\ last.a = last.b /\ last.b > 2
    /\ last.b # P - 1 /\ Gcd(last.b, P) = 1
    /\ IsOk(last.out) /\ last.out.val = 1

\* C5 (as claimed): pow(a, e) is the modular exponentiation a^e mod P, so
\* pow(a, 0) = 1 (0 when P = 1) and pow(a, 1) = a.
C5_PowIsModularExponentiation ==
    last.op = "pow"
        => (IsOk(last.out) /\ last.out.val = ModExp(last.a, last.b, P))

\* C6 (as claimed): pow(a, m + n) = pow(a, m) * pow(a, n), with m + n the
\* field sum of the exponents and * the field product.
C6_PowOfSum ==
    (last.op = "pow" /\ IsOk(last.out))
        => \A n \in 0 .. (P - 1) :
               FieldPow(last.a, FieldAdd(last.b, n, P).val, P).val
                   = FieldMul(last.out.val, FieldPow(last.a, n, P).val, P).val

\* C9: on canonical a, b field add, sub and mul return exactly (a + b) mod P,
\* (a - b) mod P and (a * b) mod P with no overflow or failed narrowing;
\* hence add and mul commute, add is associative, a + 0 = a and a - a = 0.
C9_AddSubMulExact ==
    /\ last.op = "add" =>
           /\ last.out = Ok((last.a + last.b) % P)
           /\ FieldAdd(last.b, last.a, P) = last.out
           /\ FieldAdd(last.a, 0, P) = Ok(last.a)
           /\ \A c \in 0 .. (P - 1) :
                  FieldAdd(last.out.val, c, P)
                      = FieldAdd(last.a, FieldAdd(last.b, c, P).val, P)
    /\ last.op = "sub" =>
           /\ last.out = Ok((last.a - last.b) % P)
           /\ FieldSub(last.a, last.a, P) = Ok(0)
    /\ last.op = "mul" =>
           /\ last.out = Ok((last.a * last.b) % P)
           /\ FieldMul(last.b, last.a, P) = last.out

C9_Witness ==
    /\ P = U32Range - 1
    /\ last.op = "add" /\ last.a + last.b >= U32Range
    /\ last.out = Ok(last.a + last.b - P)

---------------------------------------------------------------------------
(* Properties of the curve *)

\* C7 (as claimed): over a prime modulus, the sum of two affine points that
\* lie on the curve and have different x-coordinates lies on the curve.
C7_AdditionClosed ==
    (/\ clast.op = "add" /\ IsPrime(cP)
     /\ Affine(clast.lhs) /\ Affine(clast.rhs)
     /\ OnCurve(clast.lhs, cA, cB, cP) /\ OnCurve(clast.rhs, cA, cB, cP)
     /\ clast.lhs.x # clast.rhs.x)
        => (CIsOk(clast.out) /\ OnCurve(clast.out.pt, cA, cB, cP))

\* C8 (as claimed): for curve points P and Q over a prime modulus, each
\* Identity or on the curve, P - (P - Q) = Q.
C8_SubtractionRoundTrip ==
    (/\ clast.op = "sub" /\ IsPrime(cP)
     /\ OnCurve(clast.lhs, cA, cB, cP) /\ OnCurve(clast.rhs, cA, cB, cP))
        => /\ CIsOk(clast.out)
           /\ CIsOk(CurveSub(clast.lhs, clast.out.pt, cP))
           /\ CurveSub(clast.lhs, clast.out.pt, cP).pt = clast.rhs

\* C10: adding two affine points that share an x-coordinate returns Identity
\* without any field division, whatever their y-coordinates: so it is for a
\* point and its negation, for a point added to itself, and for P - P.
C10_SharedXGivesIdentity ==
    /\ (clast.op = "add" /\ Affine(clast.lhs) /\ Affine(clast.rhs)
            /\ clast.lhs.x = clast.rhs.x)
           => clast.out = COk(Zero, 0)
    /\ (clast.op = "sub" /\ Affine(clast.lhs) /\ Affine(clast.rhs)
            /\ clast.lhs.x = clast.rhs.x)
           => clast.out = COk(Zero, 0)

C10_Witness ==
    /\ clast.op = "add" /\ Affine(clast.lhs) /\ clast.lhs = clast.rhs
    /\ clast.lhs.y # 0 /\ cP > 2
    /\ clast.out = COk(Zero, 0) /\ p = Zero

====
